---- MODULE Spec2Model ----
(***************************************************************************)
(* A model of climpred/relative_entropy.py: the relative-entropy formula,  *)
(* the control-distribution generator, the table-building engine and the   *)
(* bootstrap driver.  One call of one of the four functions is a run of    *)
(* the state machine: Init fixes the function and its arguments, and each  *)
(* action is one statement (or block of statements) of that function.      *)
(*                                                                         *)
(* Numbers.  The formula is evaluated in exact arithmetic: a rational is   *)
(* a pair <<n, d>> in lowest terms with d > 0; a float that may be         *)
(* infinite or not-a-number is a record [k, q]; a result that contains a   *)
(* logarithm is a record [k, la, q] standing for 0.5 * ln(la) + q.  For a  *)
(* positive rational la the logarithm is rational only at la = 1, so two   *)
(* such records are equal as reals exactly when they are equal as records. *)
(***************************************************************************)
EXTENDS Integers, Sequences, FiniteSets, TLC

VARIABLES fn, pc, args, loc, ext, exc, ret

vars == <<fn, pc, args, loc, ext, exc, ret>>

(***************************************************************************)
(* Bounds of the model.                                                    *)
(***************************************************************************)
MaxEntry == 2
MaxMu == 1
MaxIt == 2
MaxMembers == 2
MaxLen == 3
MaxBootstrap == 4

\* Python's None, and an optional argument that is given: <<>> and <<v>>.
None == <<>>

Some(v) == <<v>>

NoException == "none"

NoResult == "none"

(***************************************************************************)
(* Python name resolution.  A name is bound in a function body if it is a  *)
(* parameter, a local that has been assigned, or a module-level name       *)
(* (imports of lines 1-9 and the functions the module defines).            *)
(***************************************************************************)
ModuleGlobals ==
    {"OrderedDict", "plt", "np", "pd", "xr", "Eof", "_pseudo_ens",
     "_relative_entropy_formula", "_gen_control_distribution",
     "compute_relative_entropy", "bootstrap_relative_entropy",
     "plot_relative_entropy"}

Bound(name) == name \in (DOMAIN args) \cup (DOMAIN loc) \cup ModuleGlobals

Bind(l, name, v) == (name :> v) @@ l

(***************************************************************************)
(* Exact rationals.                                                        *)
(***************************************************************************)
Abs(n) == IF n < 0 THEN -n ELSE n

Max(a, b) == IF a >= b THEN a ELSE b

Min(a, b) == IF a <= b THEN a ELSE b

RECURSIVE GCD(_, _)
GCD(a, b) == IF b = 0 THEN a ELSE GCD(b, a % b)

Rat(n, d) ==
    LET g == GCD(Abs(n), Abs(d))
        s == IF d < 0 THEN -1 ELSE 1
    IN  <<(s * n) \div g, (s * d) \div g>>

RInt(n) == <<n, 1>>

RAdd(a, b) == Rat(a[1] * b[2] + b[1] * a[2], a[2] * b[2])

RSub(a, b) == Rat(a[1] * b[2] - b[1] * a[2], a[2] * b[2])

RMul(a, b) == Rat(a[1] * b[1], a[2] * b[2])

RHalf(a) == Rat(a[1], 2 * a[2])

(***************************************************************************)
(* Floats with infinities and not-a-number, as numpy produces them.        *)
(***************************************************************************)
Fin(q) == [k |-> "fin", q |-> q]

PosInf == [k |-> "inf", q |-> RInt(0)]

NegInf == [k |-> "-inf", q |-> RInt(0)]

NaN == [k |-> "nan", q |-> RInt(0)]

\* numpy true division of two integers: x / 0 is +-inf, 0 / 0 is nan.
FDiv(a, b) ==
    IF b # 0 THEN Fin(Rat(a, b))
    ELSE IF a > 0 THEN PosInf
    ELSE IF a < 0 THEN NegInf
    ELSE NaN

FAdd(x, y) ==
    IF x.k = "nan" \/ y.k = "nan" THEN NaN
    ELSE IF x.k = "fin" /\ y.k = "fin" THEN Fin(RAdd(x.q, y.q))
    ELSE IF x.k = "fin" THEN y
    ELSE IF y.k = "fin" THEN x
    ELSE IF x.k = y.k THEN x
    ELSE NaN

\* A value 0.5 * ln(la) + q, or an infinity, or not-a-number.
LogLin(la, q) == [k |-> "fin", la |-> la, q |-> q]

Special(k) == [k |-> k, la |-> RInt(1), q |-> RInt(0)]

Zero == LogLin(RInt(1), RInt(0))

\* fac * (np.log(ratio) + trace - neofs) with fac = 0.5
HalfLogPlus(ratio, trace, neofs) ==
    LET lg == IF ratio.k = "nan" \/ ratio.k = "-inf" THEN "nan"
              ELSE IF ratio.k = "inf" THEN "inf"
              ELSE IF ratio.q[1] < 0 THEN "nan"
              ELSE IF ratio.q[1] = 0 THEN "-inf"
              ELSE "fin"
    IN  IF lg = "nan" \/ trace.k = "nan" THEN Special("nan")
        ELSE IF lg = "fin" /\ trace.k = "fin"
             THEN LogLin(ratio.q, RHalf(RSub(trace.q, RInt(neofs))))
        ELSE IF lg = "fin" THEN Special(trace.k)
        ELSE IF trace.k = "fin" \/ trace.k = lg THEN Special(lg)
        ELSE Special("nan")

\* dispersion + signal, where signal is a finite rational
AddRational(v, q) ==
    IF v.k = "fin" THEN LogLin(v.la, RAdd(v.q, q)) ELSE v

(***************************************************************************)
(* Integer matrices (a sequence of rows) and vectors.                      *)
(***************************************************************************)
DropAt(s, i) == [k \in 1..(Len(s) - 1) |-> IF k < i THEN s[k] ELSE s[k + 1]]

Minor(M, i, j) == [r \in 1..(Len(M) - 1) |-> DropAt(DropAt(M, i)[r], j)]

RECURSIVE SumTo(_, _)
SumTo(f, n) == IF n = 0 THEN 0 ELSE f[n] + SumTo(f, n - 1)

Sign(i) == IF i % 2 = 0 THEN 1 ELSE -1

\* np.linalg.det, exactly: Laplace expansion along the first row
RECURSIVE Det(_)
Det(M) ==
    IF Len(M) = 0 THEN 1
    ELSE SumTo([j \in 1..Len(M) |->
                   Sign(1 + j) * M[1][j] * Det(Minor(M, 1, j))], Len(M))

Adjugate(M) ==
    [i \in 1..Len(M) |->
        [j \in 1..Len(M) |-> Sign(i + j) * Det(Minor(M, j, i))]]

MatVec(M, v) ==
    [i \in 1..Len(M) |-> SumTo([j \in 1..Len(v) |-> M[i][j] * v[j]], Len(v))]

Dot(u, v) == SumTo([i \in 1..Len(u) |-> u[i] * v[i]], Len(u))

VecSub(u, v) == [i \in 1..Len(u) |-> u[i] - v[i]]

Transpose(M) == [i \in 1..Len(M) |-> [j \in 1..Len(M) |-> M[j][i]]]

FrobeniusSq(M) ==
    SumTo([i \in 1..Len(M) |-> Dot(M[i], M[i])], Len(M))

\* rank of a matrix of dimension at most 2
Rank(M) ==
    IF Det(M) # 0 THEN Len(M)
    ELSE IF FrobeniusSq(M) = 0 THEN 0
    ELSE 1

(***************************************************************************)
(* _relative_entropy_formula (lines 12-46).                                *)
(***************************************************************************)
\* A variant of TraceTerm: the quotient of the two traces.
TraceTerm_OfTraces(sigma_x, sigma_b) ==
    LET RECURSIVE Diag(_, _)
        Diag(M, n) == IF n = 0 THEN 0 ELSE M[n][n] + Diag(M, n - 1)
    IN  FDiv(Diag(sigma_x, Len(sigma_x)), Diag(sigma_b, Len(sigma_b)))

\* np.trace(sigma_x / sigma_b): "/" on two arrays divides element by
\* element, and the trace sums the diagonal of that quotient.
TraceTerm(sigma_x, sigma_b) ==
    LET RECURSIVE DiagSum(_)
        DiagSum(n) ==
            IF n = 0 THEN Fin(RInt(0))
            ELSE FAdd(DiagSum(n - 1), FDiv(sigma_x[n][n], sigma_b[n][n]))
    IN  DiagSum(Len(sigma_x))

\* lines 36-38
Dispersion(sigma_b, sigma_x, neofs) ==
    HalfLogPlus(FDiv(Det(sigma_b), Det(sigma_x)),
                TraceTerm(sigma_x, sigma_b), neofs)

\* np.linalg.lstsq(a, b): the minimum-norm least-squares solution and the
\* rank of a.  Full rank: the exact solution.  Rank 1: pinv(a) = a^T/|a|_F^2.
Lstsq(a, b) ==
    LET rank == Rank(a)
        n == Len(a)
        x == IF rank = n
             THEN LET y == MatVec(Adjugate(a), b)
                  IN  [i \in 1..n |-> Rat(y[i], Det(a))]
             ELSE IF rank = 0 THEN [i \in 1..n |-> RInt(0)]
             ELSE LET y == MatVec(Transpose(a), b)
                  IN  [i \in 1..n |-> Rat(y[i], FrobeniusSq(a))]
    IN  [x |-> x, rank |-> rank]

\* line 44: fac * np.matmul(mu_x - mu_b, x)
Signal(mu_x, mu_b, x) ==
    LET diff == VecSub(mu_x, mu_b)
        RECURSIVE Acc(_)
        Acc(n) == IF n = 0 THEN RInt(0)
                  ELSE RAdd(Acc(n - 1), RMul(RInt(diff[n]), x[n]))
    IN  RHalf(Acc(Len(diff)))

\* The whole function: the rank lstsq reports is bound to a local and
\* never read, and the function raises nothing.
_relative_entropy_formula(sigma_b, sigma_x, mu_x, mu_b, neofs) ==
    LET dispersion == Dispersion(sigma_b, sigma_x, neofs)
        sol == Lstsq(sigma_b, VecSub(mu_x, mu_b))
        signal == Signal(mu_x, mu_b, sol.x)
        R == AddRational(dispersion, signal)
    IN  <<R, dispersion, Fin(signal)>>

(***************************************************************************)
(* Inputs of the formula: covariance matrices (symmetric, positive         *)
(* semi-definite, singular ones included) and mean vectors of dimension    *)
(* neofs in {1, 2}.                                                        *)
(***************************************************************************)
NeofsValues == {1, 2}

Covariances(n) ==
    IF n = 1 THEN {<<<<a>>>> : a \in 0..MaxEntry}
    ELSE {<<<<m[1], m[2]>>, <<m[2], m[3]>>>> :
            m \in {t \in (0..MaxEntry) \X ((-MaxEntry)..MaxEntry) \X (0..MaxEntry) :
                     t[1] * t[3] >= t[2] * t[2]}}

Means(n) ==
    IF n = 1 THEN {<<a>> : a \in 0..MaxMu}
    ELSE (0..MaxMu) \X (0..MaxMu)

\* symmetric positive definite: every leading principal minor is positive
SPD(M) ==
    /\ M[1][1] > 0
    /\ Det(M) > 0
    /\ \A i, j \in 1..Len(M) : M[i][j] = M[j][i]

NoLocals == <<>>

\* What the external collaborators have been asked to do so far: the EOF
\* solver's fits and projections, and the calls of _pseudo_ens.
NoCalls == [fits |-> <<>>, projections |-> <<>>, pseudo_ens |-> 0]

InitFormula ==
    \E n \in NeofsValues :
      \E sb \in Covariances(n), sx \in Covariances(n) :
        \E mx \in Means(n), mb \in Means(n) :
          /\ fn = "_relative_entropy_formula"
          /\ pc = "dispersion"
          /\ args = [sigma_b |-> sb, sigma_x |-> sx, mu_x |-> mx,
                     mu_b |-> mb, neofs |-> n]
          /\ loc = NoLocals
          /\ ext = NoCalls
          /\ exc = NoException
          /\ ret = NoResult

\* lines 36-38
FormulaDispersion ==
    /\ fn = "_relative_entropy_formula"
    /\ pc = "dispersion"
    /\ loc' = Bind(Bind(loc, "fac", <<1, 2>>), "dispersion",
                   Dispersion(args.sigma_b, args.sigma_x, args.neofs))
    /\ pc' = "lstsq"
    /\ UNCHANGED <<fn, args, ext, exc, ret>>

\* lines 42-43
FormulaLstsq ==
    /\ fn = "_relative_entropy_formula"
    /\ pc = "lstsq"
    /\ LET sol == Lstsq(args.sigma_b, VecSub(args.mu_x, args.mu_b))
       IN  loc' = Bind(Bind(loc, "x", sol.x), "rank", sol.rank)
    /\ pc' = "signal"
    /\ UNCHANGED <<fn, args, ext, exc, ret>>

\* lines 44-46
FormulaReturn ==
    /\ fn = "_relative_entropy_formula"
    /\ pc = "signal"
    /\ LET signal == Signal(args.mu_x, args.mu_b, loc.x)
           R == AddRational(loc.dispersion, signal)
       IN  /\ loc' = Bind(Bind(loc, "signal", Fin(signal)), "R", R)
           /\ ret' = <<R, loc.dispersion, Fin(signal)>>
    /\ pc' = "returned"
    /\ UNCHANGED <<fn, args, ext, exc>>

(***************************************************************************)
(* Labeled ensembles.  An ensemble is the pair of its coordinate labels:   *)
(* [initialization |-> <<...>>, member |-> <<...>>, time |-> <<...>>].     *)
(***************************************************************************)
\* np.arange(a, b)
Arange(a, b) == [i \in 1..Max(b - a, 0) |-> a + i - 1]

Range(s) == {s[i] : i \in 1..Len(s)}

RECURSIVE SortedSeq(_)
SortedSeq(S) ==
    IF S = {} THEN <<>>
    ELSE LET m == CHOOSE x \in S : \A y \in S : x <= y
         IN  <<m>> \o SortedSeq(S \ {m})

RECURSIVE Flatten(_)
Flatten(ss) == IF ss = <<>> THEN <<>> ELSE Head(ss) \o Flatten(Tail(ss))

InitializationLabels == {<<3>>, <<3, 4>>, <<4, 3>>}

\* Lead times are labeled from 1 or from 0.
TimeLabels == UNION {{Arange(1, n + 1), Arange(0, n)} : n \in 1..MaxLen}

Ensembles ==
    {[initialization |-> il, member |-> Arange(1, m + 1), time |-> tl] :
        il \in InitializationLabels, m \in 1..MaxMembers, tl \in TimeLabels}

\* The labels a freshly generated pseudo-ensemble may carry on an axis of
\* `size` entries whose reference labels are `ref`: the reference's own
\* labels or positions 0 .. size-1.
FreshLabels(ref) == {ref, Arange(0, Len(ref))}

\* climpred.prediction._pseudo_ens(ds, control): one resampling round shaped
\* like ds (same initialization count, member count and lead-time length).
PseudoEnsembles(ds) ==
    {[initialization |-> il, member |-> ml, time |-> ds.time] :
        il \in FreshLabels(ds.initialization), ml \in FreshLabels(ds.member)}

\* control_uninitialized['initialization'] = ds.initialization.values (line 69)
RelabelInitialization(e, ds) == [e EXCEPT !.initialization = ds.initialization]

\* xr.concat(ds_list, 'member'): members are appended; the other indexes
\* are kept when all operands agree and outer-joined (sorted union) if not.
ConcatMember(ds_list) ==
    LET first == ds_list[1]
        same == \A i \in 1..Len(ds_list) :
                    ds_list[i].initialization = first.initialization
    IN  [initialization |->
            IF same THEN first.initialization
            ELSE SortedSeq(UNION {Range(ds_list[i].initialization) :
                                     i \in 1..Len(ds_list)}),
         member |-> Flatten([i \in 1..Len(ds_list) |-> ds_list[i].member]),
         time |-> first.time]

\* A variant of RelabelMember: the concatenated labels are kept.
RelabelMember_Keep(e) == e

\* control_uninitialized['member'] = np.arange(member.size): the one
\* assignment that lines 72-73 spell over two lines
RelabelMember(e) == [e EXCEPT !.member = Arange(0, Len(e.member))]

(***************************************************************************)
(* _gen_control_distribution (lines 49-74).                                *)
(***************************************************************************)
InitGen ==
    \E ds \in Ensembles, it \in 0..MaxIt :
        /\ fn = "_gen_control_distribution"
        /\ pc = "for"
        /\ args = [ds |-> ds, control |-> "control", it |-> it]
        /\ loc = Bind(NoLocals, "ds_list", <<>>)
        /\ ext = NoCalls
        /\ exc = NoException
        /\ ret = NoResult

\* lines 67-70: one iteration of `for _ in range(it)`
GenRound ==
    /\ fn = "_gen_control_distribution"
    /\ pc = "for"
    /\ Len(loc.ds_list) < args.it
    /\ \E pe \in PseudoEnsembles(args.ds) :
         LET control_uninitialized == RelabelInitialization(pe, args.ds)
         IN  loc' = Bind(Bind(loc, "control_uninitialized", control_uninitialized),
                         "ds_list", Append(loc.ds_list, control_uninitialized))
    /\ ext' = [ext EXCEPT !.pseudo_ens = @ + 1]
    /\ UNCHANGED <<fn, pc, args, exc, ret>>

\* lines 71-74: xr.concat of an empty list raises ValueError
GenConcat ==
    /\ fn = "_gen_control_distribution"
    /\ pc = "for"
    /\ Len(loc.ds_list) = args.it
    /\ IF loc.ds_list = <<>>
       THEN /\ exc' = "ValueError"
            /\ pc' = "raised"
            /\ UNCHANGED <<loc, ret>>
       ELSE LET control_uninitialized == RelabelMember(ConcatMember(loc.ds_list))
            IN  /\ loc' = Bind(loc, "control_uninitialized", control_uninitialized)
                /\ ret' = control_uninitialized
                /\ pc' = "returned"
                /\ exc' = NoException
    /\ UNCHANGED <<fn, args, ext>>

(***************************************************************************)
(* compute_relative_entropy (lines 77-159).                                *)
(***************************************************************************)
\* The value of a name: a local (or a rebound parameter) before a parameter.
Val(name) == IF name \in DOMAIN loc THEN loc[name] ELSE args[name]

\* s[:n] for a Python sequence s and an integer n
PyPrefix(s, n) ==
    LET m == IF n >= 0 THEN Min(n, Len(s)) ELSE Max(Len(s) + n, 0)
    IN  SubSeq(s, 1, m)

\* pd.MultiIndex.from_product([['R', 'S', 'D'], initializations])
FromProduct(components, initializations) ==
    [k \in 1..(Len(components) * Len(initializations)) |->
        <<components[((k - 1) \div Len(initializations)) + 1],
          initializations[((k - 1) % Len(initializations)) + 1]>>]

\* A variant of LeadYears: np.arange(length).
LeadYears_FromZero(length) == Arange(0, length)

\* tt = np.arange(1, length) (line 121)
LeadYears(length) == Arange(1, length)

\* pd.DataFrame(index=tt, columns=mindex): every cell is empty (NaN)
DataFrame(index, columns) ==
    [index |-> index, columns |-> columns,
     cells |-> [c \in Range(index) \X Range(columns) |-> "NaN"]]

\* rel_ent.T.loc[component, label][t] = v: the cell is set when the table
\* has that row; a label the row index lacks only enlarges the temporary
\* column and leaves the table as it was.
SetCell(df, component, label, t, v) ==
    IF t \in Range(df.index)
    THEN [df EXCEPT !.cells[<<t, <<component, label>>>>] = v]
    ELSE df

\* iterables = [['R', 'S', 'D'], initializations] (line 118)
Components == <<"R", "S", "D">>

\* The fields of lines 110-111 and 113-114, as expressions over the inputs.
MeanTime(f) == <<"mean", f, "time">>

Minus(f, g) == <<"minus", f, g>>

\* control_uninitialized.stack(new=('member', 'initialization')) (line 129)
\* The rename of line 130 relabels the stacked axis and leaves the field
\* the solver is fitted on the same.
Stack(f) == <<"stack", f, <<"member", "initialization">>>>

\* Lines 136-142 and 145-151 for one slice: the solver's projection of the
\* slice on the leading neofs EOFs, its mean over members and its
\* covariance.  The solver and the data are external; the statistics are a
\* fixed function of the slice that tells baseline from forecast and one
\* (initialization, lead time) from another.
SliceGaussian(kind, init, t, neofs) ==
    [mu |-> [i \in 1..neofs |-> IF kind = "x" THEN (init + t) % 2 ELSE 0],
     sigma |-> [i \in 1..neofs |-> [j \in 1..neofs |->
                  IF i # j THEN 0
                  ELSE IF kind = "x" THEN 1 + (t % 2) ELSE 2]]]

NtimeValues == {None} \cup {Some(n) : n \in 0..MaxLen}

InitCompute ==
    \E initialized \in Ensembles, ntime \in NtimeValues,
       neofs \in {None} \cup {Some(n) : n \in NeofsValues}, anomaly_data \in BOOLEAN,
       curv \in BOOLEAN :
        /\ fn = "compute_relative_entropy"
        /\ pc = "defaults"
        /\ args = [initialized |-> initialized,
                   control_uninitialized |->
                       [initialized EXCEPT
                           !.member = Arange(0, 2 * Len(initialized.member))],
                   anomaly_data |-> anomaly_data, neofs |-> neofs,
                   curv |-> curv, ntime |-> ntime]
        /\ loc = NoLocals
        /\ ext = NoCalls
        /\ exc = NoException
        /\ ret = NoResult

Raise(e) ==
    /\ exc' = e
    /\ pc' = "raised"

\* lines 103-106
ComputeDefaults ==
    /\ fn = "compute_relative_entropy"
    /\ pc = "defaults"
    /\ LET neofs == IF args.neofs = None THEN Len(args.initialized.member)
                    ELSE args.neofs[1]
           ntime == IF args.ntime = None THEN Len(args.initialized.time)
                    ELSE args.ntime[1]
       IN  loc' = Bind(Bind(loc, "neofs", neofs), "ntime", ntime)
    /\ pc' = "anomalies"
    /\ UNCHANGED <<fn, args, ext, exc, ret>>

\* lines 108-114: the raw-data branch first reads the name
\* detrend_by_control_time_mean
\* (line 109, an `if` whose body is lines 110-111), which nothing binds.
ComputeAnomalies ==
    /\ fn = "compute_relative_entropy"
    /\ pc = "anomalies"
    /\ IF ~args.anomaly_data
       THEN IF Bound("detrend_by_control_time_mean")
            THEN /\ loc' = Bind(Bind(loc, "anom_x",
                                     Minus("initialized",
                                           MeanTime("control_uninitialized"))),
                                "anom_b",
                                Minus("control_uninitialized",
                                      MeanTime("control_uninitialized")))
                 /\ pc' = "table"
                 /\ UNCHANGED exc
            ELSE /\ Raise("NameError")
                 /\ UNCHANGED loc
       ELSE /\ loc' = Bind(Bind(loc, "anom_x", "initialized"),
                           "anom_b", "control_uninitialized")
            /\ pc' = "table"
            /\ UNCHANGED exc
    /\ UNCHANGED <<fn, args, ext, ret>>

\* lines 116-123
ComputeTable ==
    /\ fn = "compute_relative_entropy"
    /\ pc = "table"
    /\ LET initializations == args.initialized.initialization
           length == Len(args.initialized.time)
           mindex == FromProduct(Components, initializations)
           tt == LeadYears(length)
       IN  loc' = Bind(Bind(Bind(loc, "initializations", initializations),
                            "length", length),
                       "rel_ent", DataFrame(tt, mindex))
    /\ pc' = "weights"
    /\ UNCHANGED <<fn, args, ext, exc, ret>>

\* lines 124-128
ComputeWeights ==
    /\ fn = "compute_relative_entropy"
    /\ pc = "weights"
    /\ loc' = Bind(loc, "wgts",
                   IF args.curv THEN None ELSE <<"sqrt", <<"cos", "lat">>>>)
    /\ pc' = "fit"
    /\ UNCHANGED <<fn, args, ext, exc, ret>>

\* lines 129-131: solver = Eof(base_to_calc_eofs, weights=wgts)
ComputeFit ==
    /\ fn = "compute_relative_entropy"
    /\ pc = "fit"
    /\ LET base_to_calc_eofs == Stack("control_uninitialized")
       IN  /\ ext' = [ext EXCEPT !.fits =
                        Append(@, [field |-> base_to_calc_eofs,
                                   weights |-> loc.wgts])]
           /\ loc' = Bind(Bind(loc, "base_to_calc_eofs", base_to_calc_eofs),
                          "solver", Len(ext.fits) + 1)
    /\ pc' = "for"
    /\ UNCHANGED <<fn, args, exc, ret>>

\* The lead times the inner loop walks: initialized.time.values[:ntime]
LoopTimes == PyPrefix(args.initialized.time, loc.ntime)

\* lines 133-134: the two loop headers.  at = <<i, j>> is the position of
\* the current iteration (<<0, 0>> before the first).
ComputeFor ==
    /\ fn = "compute_relative_entropy"
    /\ pc = "for"
    /\ LET at == IF "at" \in DOMAIN loc THEN loc.at ELSE <<0, 0>>
           ninit == Len(loc.initializations)
           nt == Len(LoopTimes)
           nxt == IF nt = 0 \/ ninit = 0 THEN <<ninit + 1, 0>>
                  ELSE IF at = <<0, 0>> THEN <<1, 1>>
                  ELSE IF at[2] < nt THEN <<at[1], at[2] + 1>>
                  ELSE <<at[1] + 1, 1>>
       IN  IF nxt[1] <= ninit
           THEN /\ loc' = Bind(Bind(Bind(loc, "at", nxt),
                                    "init", loc.initializations[nxt[1]]),
                               "t", LoopTimes[nxt[2]])
                /\ pc' = "project_b"
           ELSE /\ pc' = "return"
                /\ UNCHANGED loc
    /\ UNCHANGED <<fn, args, ext, exc, ret>>

\* A variant of Projection: a solver of the slice's own.
Projection_PerSlice(field, kind) ==
    [solver |-> loc.solver + Len(ext.projections), field |-> field,
     kind |-> kind, initialization |-> loc.init, time |-> loc.t,
     neofs |-> loc.neofs]


Projection(field, kind) ==
    [solver |-> loc.solver, field |-> field, kind |-> kind,
     initialization |-> loc.init, time |-> loc.t, neofs |-> loc.neofs]

\* lines 136-142
ComputeProjectBaseline ==
    /\ fn = "compute_relative_entropy"
    /\ pc = "project_b"
    /\ LET g == SliceGaussian("b", loc.init, loc.t, loc.neofs)
       IN  loc' = Bind(Bind(loc, "mu_b", g.mu), "sigma_b", g.sigma)
    /\ ext' = [ext EXCEPT !.projections = Append(@, Projection(loc.anom_b, "b"))]
    /\ pc' = "project_x"
    /\ UNCHANGED <<fn, args, exc, ret>>

\* lines 145-151
ComputeProjectForecast ==
    /\ fn = "compute_relative_entropy"
    /\ pc = "project_x"
    /\ LET g == SliceGaussian("x", loc.init, loc.t, loc.neofs)
       IN  loc' = Bind(Bind(loc, "mu_x", g.mu), "sigma_x", g.sigma)
    /\ ext' = [ext EXCEPT !.projections = Append(@, Projection(loc.anom_x, "x"))]
    /\ pc' = "formula"
    /\ UNCHANGED <<fn, args, exc, ret>>

\* lines 153-154: r, d, s = _relative_entropy_formula(...)
ComputeFormula ==
    /\ fn = "compute_relative_entropy"
    /\ pc = "formula"
    /\ LET rds == _relative_entropy_formula(loc.sigma_b, loc.sigma_x,
                                            loc.mu_x, loc.mu_b, loc.neofs)
       IN  loc' = Bind(Bind(Bind(loc, "r", rds[1]), "d", rds[2]), "s", rds[3])
    /\ pc' = "store"
    /\ UNCHANGED <<fn, args, ext, exc, ret>>

\* lines 156-158: the column is selected by the name ens
ComputeStore ==
    /\ fn = "compute_relative_entropy"
    /\ pc = "store"
    /\ IF Bound("ens")
       THEN /\ loc' = Bind(loc, "rel_ent",
                        SetCell(SetCell(SetCell(loc.rel_ent,
                            "R", Val("ens"), loc.t, loc.r),
                            "D", Val("ens"), loc.t, loc.d),
                            "S", Val("ens"), loc.t, loc.s))
            /\ pc' = "for"
            /\ UNCHANGED exc
       ELSE /\ Raise("NameError")
            /\ UNCHANGED loc
    /\ UNCHANGED <<fn, args, ext, ret>>

\* line 159
ComputeReturn ==
    /\ fn = "compute_relative_entropy"
    /\ pc = "return"
    /\ ret' = loc.rel_ent
    /\ pc' = "returned"
    /\ UNCHANGED <<fn, args, loc, ext, exc>>

(***************************************************************************)
(* bootstrap_relative_entropy (lines 162-206).                             *)
(***************************************************************************)
InitBootstrap ==
    \E initialized \in Ensembles, bootstrap \in 0..MaxBootstrap :
        /\ fn = "bootstrap_relative_entropy"
        /\ pc = "defaults"
        /\ args = [initialized |-> initialized,
                   control_uninitialized |->
                       [initialized EXCEPT
                           !.member = Arange(0, 2 * Len(initialized.member))],
                   sig |-> 95, bootstrap |-> bootstrap, curv |-> TRUE,
                   neofs |-> None, ntime |-> None]
        /\ loc = NoLocals
        /\ ext = NoCalls
        /\ exc = NoException
        /\ ret = NoResult

\* lines 189-192
BootstrapDefaults ==
    /\ fn = "bootstrap_relative_entropy"
    /\ pc = "defaults"
    /\ loc' = Bind(Bind(loc, "neofs", Len(args.initialized.member)),
                   "ntime", Len(args.initialized.time))
    /\ pc' = "range"
    /\ UNCHANGED <<fn, args, ext, exc, ret>>

\* range(min(1, int(bootstrap / initialized.time.size))) (line 195)
Rounds(bootstrap, size) == Min(1, bootstrap \div size)

\* lines 194-195: x = [] and the range the loop walks
BootstrapRange ==
    /\ fn = "bootstrap_relative_entropy"
    /\ pc = "range"
    /\ loc' = Bind(Bind(Bind(loc, "x", <<>>),
                        "rounds", Rounds(args.bootstrap, Len(args.initialized.time))),
                   "started", 0)
    /\ pc' = "for"
    /\ UNCHANGED <<fn, args, ext, exc, ret>>

\* lines 195-202: one round; its first statement reads the name control
BootstrapRound ==
    /\ fn = "bootstrap_relative_entropy"
    /\ pc = "for"
    /\ loc.started < loc.rounds
    /\ IF Bound("control")
       THEN /\ \E pe \in PseudoEnsembles(args.initialized) :
                 LET ds_control ==
                        RelabelMember(RelabelInitialization(pe, args.initialized))
                 IN  loc' = Bind(Bind(Bind(loc, "ds_control", ds_control),
                                      "x", Append(loc.x, <<"rel_ent", ds_control>>)),
                                 "started", loc.started + 1)
            /\ ext' = [ext EXCEPT !.pseudo_ens = @ + 1]
            /\ UNCHANGED <<pc, exc>>
       ELSE /\ loc' = Bind(loc, "started", loc.started + 1)
            /\ Raise("NameError")
            /\ UNCHANGED ext
    /\ UNCHANGED <<fn, args, ret>>

\* lines 203-206: pd.concat of an empty list raises ValueError
BootstrapConcat ==
    /\ fn = "bootstrap_relative_entropy"
    /\ pc = "for"
    /\ loc.started = loc.rounds
    /\ IF loc.x = <<>>
       THEN /\ Raise("ValueError")
            /\ UNCHANGED ret
       ELSE /\ ret' = <<"quantile", loc.x, <<args.sig, 100>>>>
            /\ pc' = "returned"
            /\ UNCHANGED exc
    /\ UNCHANGED <<fn, args, loc, ext>>

Init == InitFormula \/ InitGen \/ InitCompute \/ InitBootstrap

Next ==
    \/ FormulaDispersion \/ FormulaLstsq \/ FormulaReturn
    \/ GenRound \/ GenConcat
    \/ ComputeDefaults \/ ComputeAnomalies \/ ComputeTable \/ ComputeWeights
    \/ ComputeFit \/ ComputeFor \/ ComputeProjectBaseline
    \/ ComputeProjectForecast \/ ComputeFormula \/ ComputeStore
    \/ ComputeReturn
    \/ BootstrapDefaults \/ BootstrapRange \/ BootstrapRound \/ BootstrapConcat

Spec == Init /\ [][Next]_vars

(***************************************************************************)
(* Properties.                                                             *)
(***************************************************************************)
Ended == pc \in {"returned", "raised"}

InFormula == fn = "_relative_entropy_formula"

InGen == fn = "_gen_control_distribution"

InCompute == fn = "compute_relative_entropy"

InBootstrap == fn = "bootstrap_relative_entropy"

\* C1: bootstrap_relative_entropy walks max(1, floor(bootstrap / time.size))
\* resampling rounds, for every bootstrap >= 0 and time.size >= 1.
C1_RoundCount ==
    (InBootstrap /\ "rounds" \in DOMAIN loc) =>
        loc.rounds = Max(1, args.bootstrap \div Len(args.initialized.time))

TableShape(df) ==
    /\ Range(df.index) = 1..(Len(args.initialized.time) - 1)
    /\ Len(df.index) = Cardinality(Range(df.index))
    /\ Range(df.columns) =
          {"R", "S", "D"} \X Range(args.initialized.initialization)
    /\ Len(df.columns) = Cardinality(Range(df.columns))
    /\ DOMAIN df.cells = Range(df.index) \X Range(df.columns)

\* C2: from its construction to its return, the table of
\* compute_relative_entropy has as rows exactly 1 .. time.size - 1 and as
\* columns exactly {R, S, D} x the initialization labels, whatever ntime is.
C2_TableShape ==
    InCompute =>
        /\ "rel_ent" \in DOMAIN loc => TableShape(loc.rel_ent)
        /\ pc = "returned" => TableShape(ret)

\* C2 witness: a table with rows and columns has been returned.
C2_Witness ==
    /\ InCompute
    /\ pc = "returned"
    /\ Len(ret.index) >= 2
    /\ Len(ret.columns) >= 6

SliceValues(init, t) ==
    LET b == SliceGaussian("b", init, t, loc.neofs)
        x == SliceGaussian("x", init, t, loc.neofs)
    IN  _relative_entropy_formula(b.sigma, x.sigma, x.mu, b.mu, loc.neofs)

\* C3: a call that has built its table ends by returning it, with the
\* cells (R, init), (S, init), (D, init) of every lead time among the first
\* ntime holding the relative entropy, the signal and the dispersion of the
\* formula for that slice, and every other row empty.
C3_CellsHoldFormulaValues ==
    (InCompute /\ Ended /\ "rel_ent" \in DOMAIN loc) =>
        /\ pc = "returned"
        /\ \A init \in Range(args.initialized.initialization) :
             \A k \in 1..Len(LoopTimes) :
                LET t == LoopTimes[k]
                    v == SliceValues(init, t)
                IN  /\ t \in Range(loc.rel_ent.index)
                    /\ loc.rel_ent.cells[<<t, <<"R", init>>>>] = v[1]
                    /\ loc.rel_ent.cells[<<t, <<"D", init>>>>] = v[2]
                    /\ loc.rel_ent.cells[<<t, <<"S", init>>>>] = v[3]
        /\ \A c \in DOMAIN loc.rel_ent.cells :
             c[1] \notin Range(LoopTimes) => loc.rel_ent.cells[c] = "NaN"

\* trace(Y) for the solution Y of sigma_b * Y = sigma_x
TraceSolve(sigma_b, sigma_x) ==
    LET adj == Adjugate(sigma_b)
        n == Len(sigma_b)
        num == SumTo([i \in 1..n |->
                        SumTo([j \in 1..n |-> adj[i][j] * sigma_x[j][i]], n)], n)
    IN  Fin(Rat(num, Det(sigma_b)))

\* C4: for symmetric positive definite sigma_b and sigma_x the trace term
\* of the dispersion is trace(Y) with sigma_b * Y = sigma_x, off-diagonal
\* entries included.
C4_TraceIsTraceOfSolve ==
    (InFormula /\ "dispersion" \in DOMAIN loc
        /\ SPD(args.sigma_b) /\ SPD(args.sigma_x)) =>
        /\ TraceTerm(args.sigma_x, args.sigma_b)
              = TraceSolve(args.sigma_b, args.sigma_x)
        /\ loc.dispersion =
              HalfLogPlus(FDiv(Det(args.sigma_b), Det(args.sigma_x)),
                          TraceSolve(args.sigma_b, args.sigma_x), args.neofs)

\* C5: identical distributions (sigma_b = sigma_x symmetric positive
\* definite, mu_b = mu_x) give (R, dispersion, signal) = (0, 0, 0).
C5_IdenticalGivesZero ==
    (InFormula /\ pc = "returned" /\ SPD(args.sigma_b)
        /\ args.sigma_b = args.sigma_x /\ args.mu_b = args.mu_x) =>
        ret = <<Zero, Zero, Fin(RInt(0))>>

\* C5 witness: the formula has returned for identical distributions whose
\* covariance has a non-zero off-diagonal entry and whose mean is not zero.
C5_Witness ==
    /\ InFormula
    /\ pc = "returned"
    /\ args.neofs = 2
    /\ SPD(args.sigma_b)
    /\ args.sigma_b = args.sigma_x
    /\ args.mu_b = args.mu_x
    /\ args.sigma_b[1][2] # 0
    /\ args.mu_b[1] # 0

\* C6: with a singular sigma_b (rank < neofs) the formula ends in a
\* SingularCovarianceError and returns no values.
C6_SingularRaises ==
    (InFormula /\ Ended /\ Rank(args.sigma_b) < args.neofs) =>
        (pc = "raised" /\ exc = "SingularCovarianceError")

\* C7: within one call of compute_relative_entropy there is at most one
\* fit of the EOF solver; when a projection is made the solver has been
\* fitted exactly once, on control_uninitialized stacked over (member,
\* initialization), and every projection, baseline and forecast, is made
\* by that solver.
C7_FitOnce ==
    InCompute =>
        /\ Len(ext.fits) <= 1
        /\ ext.projections # <<>> =>
              /\ Len(ext.fits) = 1
              /\ ext.fits[1].field =
                    <<"stack", "control_uninitialized",
                      <<"member", "initialization">>>>
        /\ \A i \in 1..Len(ext.projections) : ext.projections[i].solver = 1
        /\ pc = "returned" => Len(ext.fits) = 1

\* C7 witness: a baseline and a forecast slice have both been projected.
C7_Witness ==
    /\ InCompute
    /\ Len(ext.projections) = 2
    /\ ext.projections[1].kind = "b"
    /\ ext.projections[2].kind = "x"

\* C8: once the anomaly step has run, with anomaly_data false anom_x is
\* initialized minus the time-mean of control_uninitialized and anom_b is
\* control_uninitialized minus that mean; with anomaly_data true both are
\* the inputs unchanged.
C8_AnomaliesUnconditional ==
    (InCompute /\ pc \notin {"defaults", "anomalies"}) =>
        /\ "anom_x" \in DOMAIN loc
        /\ "anom_b" \in DOMAIN loc
        /\ IF args.anomaly_data
           THEN /\ loc.anom_x = "initialized"
                /\ loc.anom_b = "control_uninitialized"
           ELSE /\ loc.anom_x =
                      <<"minus", "initialized",
                        <<"mean", "control_uninitialized", "time">>>>
                /\ loc.anom_b =
                      <<"minus", "control_uninitialized",
                        <<"mean", "control_uninitialized", "time">>>>

GenResult(e) ==
    /\ e.member = Arange(0, args.it * Len(args.ds.member))
    /\ e.initialization = args.ds.initialization

C10_WrittenRowsExist ==
    (InCompute /\ "rel_ent" \in DOMAIN loc) =>
        \A k \in 1..Len(LoopTimes) :
            LoopTimes[k] \in Range(loc.rel_ent.index)
====
